---- MODULE Spec2Model ----
(***************************************************************************)
(* URL-shortening microservice (src/main.py) and its logging client        *)
(* (src/logger.py).                                                        *)
(*                                                                         *)
(* Request handlers run in the server's worker threads.  A handler is      *)
(* modelled by one action per stretch of code between two places where it  *)
(* touches url_db; the Log calls of the stretch are part of the action.    *)
(*   Spec     one worker thread: requests are served one after the other    *)
(*   SpecConc a pool of worker threads: requests interleave                 *)
(*   SpecLog  several threads are inside Log / get_auth_token at once       *)
(* Time is counted in minutes.                                             *)
(***************************************************************************)
EXTENDS Integers, Sequences, FiniteSets, TLC

VARIABLES url_db, now, th, nreq, evicted, auth_token_storage, token_lock, lg, auth_posts, first_auth, calls

vars == <<url_db, now, th, nreq, evicted, auth_token_storage, token_lock, lg, auth_posts, first_auth, calls>>

svc_vars == <<url_db, now, th, nreq, evicted>>

log_vars == <<token_lock, lg, auth_posts, first_auth, calls>>

---------------------------------------------------------------------------
(* Bounds of the model *)

MaxTime == 2

MaxRequests == 3

MaxLogCalls == 4

NumRandomCodes == 1

Threads == {"w1", "w2"}

Worker == {"w1"}

LogThreads == {"l1", "l2"}

---------------------------------------------------------------------------
(* config.py (not among the sources): values of the configuration *)

SHORTCODE_LENGTH == 6

DEFAULT_VALIDITY_MINUTES == 2

BASE_SHORT_URL == "http://localhost:8000"

---------------------------------------------------------------------------
(* Characters and shortcodes.  A shortcode is a sequence of characters;    *)
(* the absent shortcode (None) is the empty sequence.                      *)

ascii_letters ==
  << "a","b","c","d","e","f","g","h","i","j","k","l","m",
     "n","o","p","q","r","s","t","u","v","w","x","y","z",
     "A","B","C","D","E","F","G","H","I","J","K","L","M",
     "N","O","P","Q","R","S","T","U","V","W","X","Y","Z" >>

digits == << "0","1","2","3","4","5","6","7","8","9" >>

chars == ascii_letters \o digits

Range(s) == { s[i] : i \in DOMAIN s }

MIN_LENGTH == 4

MAX_LENGTH == 12

PatternChars == Range(chars) \cup {"_", "-"}

RECURSIVE Pow(_, _)
Pow(b, e) == IF e = 0 THEN 1 ELSE b * Pow(b, e - 1)

\* The i-th string a draw of SHORTCODE_LENGTH characters of chars can give,
\* in the order of chars.
RandomCode(i) ==
  [ k \in 1..SHORTCODE_LENGTH |->
      chars[ (((i - 1) \div Pow(Len(chars), SHORTCODE_LENGTH - k)) % Len(chars)) + 1 ] ]

RandomDraws == { RandomCode(i) : i \in 1..NumRandomCodes }

---------------------------------------------------------------------------
(* URLs.  A URL is <<scheme, host, path>>.  pydantic's HttpUrl lower-cases *)
(* scheme and host and gives an empty path the value "/"; str() of it is   *)
(* the normalised URL.                                                     *)

Lower(s) ==
  CASE s = "HTTPS"       -> "https"
    [] s = "Example.COM" -> "example.com"
    [] OTHER             -> s

UrlValid(u) == Lower(u[1]) \in {"http", "https"} /\ u[2] # ""

HttpUrlStr(u) == << Lower(u[1]), Lower(u[2]), IF u[3] = "" THEN "/" ELSE u[3] >>

---------------------------------------------------------------------------
(* Logging client (src/logger.py).  auth_token_storage is <<>> for None    *)
(* and <<tok>> for the dict {'token': tok}.  A token of "" stands for a    *)
(* missing or empty access_token.  An answer of a remote endpoint is the   *)
(* exception requests raises for it (exc, "" when none) and its content.   *)

Tokens == {"tokA", "tokB"}

AuthAnswers ==
  { [exc |-> "ConnectionError", access_token |-> ""],
    [exc |-> "HTTPError",       access_token |-> ""],
    [exc |-> "",                access_token |-> ""] }
  \cup { [exc |-> "", access_token |-> k] : k \in Tokens }

LogAnswers ==
  { [exc |-> "",        status_code |-> 200],
    [exc |-> "",        status_code |-> 401],
    [exc |-> "Timeout", status_code |-> 0] }

\* (C10) except clauses that catch timeouts only
TimeoutOnly == {"Timeout"}

\* requests.exceptions.RequestException and its subclasses
RequestException == {"ConnectionError", "Timeout", "HTTPError"}

\* (C8) the test of line 30 left out: every call fetches a token
CachedNever(storage) == FALSE

\* logger.py 30: a cached token is present
Cached(storage) == storage # <<>>

\* (C14) the failure is remembered: the except branch of line 57 caches an
\* empty token
AuthResultCachesFailure(storage, a) ==
  IF a.exc # ""
    THEN [storage |-> <<"">>, token |-> "",
          raised |-> IF a.exc \in RequestException THEN "" ELSE a.exc]
    ELSE IF a.access_token = ""
      THEN [storage |-> storage, token |-> "", raised |-> ""]
      ELSE [storage |-> <<a.access_token>>, token |-> a.access_token, raised |-> ""]

\* (C19) the test of line 49 left out: whatever access_token the answer
\* carries is cached
AuthResultNoEmptyCheck(storage, a) ==
  IF a.exc # ""
    THEN [storage |-> storage, token |-> "",
          raised |-> IF a.exc \in RequestException THEN "" ELSE a.exc]
    ELSE [storage |-> <<a.access_token>>, token |-> a.access_token, raised |-> ""]

\* logger.py 42-59: the auth request has been answered with a.
\* token is what get_auth_token returns ("" for None), raised the exception
\* that leaves it ("" for none).
AuthResult(storage, a) ==
  IF a.exc # ""
    THEN [storage |-> storage, token |-> "",
          raised |-> IF a.exc \in RequestException THEN "" ELSE a.exc]
    ELSE IF a.access_token = ""
      THEN [storage |-> storage, token |-> "", raised |-> ""]
      ELSE [storage |-> <<a.access_token>>, token |-> a.access_token, raised |-> ""]

\* logger.py 22-59, run without interruption
get_auth_token(storage, a) ==
  IF Cached(storage)
    THEN [storage |-> storage, token |-> storage[1], raised |-> "", auth_sent |-> 0]
    ELSE [auth_sent |-> 1] @@ AuthResult(storage, a)

\* logger.py 83-88: the log request has been answered with l
SubmitResult(l) ==
  [raised    |-> IF l.exc = "" \/ l.exc \in RequestException THEN "" ELSE l.exc,
   delivered |-> l.exc = "" /\ l.status_code = 200]

\* (C16) the test of line 67 left out
HasTokenAlways(token) == TRUE

\* logger.py 67: get_auth_token returned a token
HasToken(token) == token # ""

\* logger.py 61-88, run without interruption: one Log call
Log(storage, a, l) ==
  LET g == get_auth_token(storage, a) IN
    IF g.raised # "" \/ ~ HasToken(g.token)
      THEN [storage |-> g.storage, raised |-> g.raised, auth_sent |-> g.auth_sent,
            log_sent |-> 0, delivered |-> FALSE]
      ELSE [storage |-> g.storage, raised |-> SubmitResult(l).raised,
            auth_sent |-> g.auth_sent, log_sent |-> 1,
            delivered |-> SubmitResult(l).delivered]

\* The answers the endpoints can give to one Log call: the auth endpoint is
\* asked only when no token is cached, the log endpoint only with a token
NotAsked == [exc |-> "", access_token |-> "", status_code |-> 0]

Answers(storage) ==
  IF Cached(storage)
    THEN { <<NotAsked, l>> : l \in LogAnswers }
    ELSE { <<a, NotAsked>> : a \in { x \in AuthAnswers : x.access_token = "" } }
         \cup { <<a, l>> : a \in { x \in AuthAnswers : x.access_token # "" },
                           l \in LogAnswers }

\* k Log calls in a row, the endpoints answering each the same way (b); the
\* calls after one that raised are not made
RECURSIVE Logs(_, _, _)
Logs(storage, b, k) ==
  IF k = 0
    THEN [storage |-> storage, raised |-> ""]
    ELSE LET one == Log(storage, b[1], b[2]) IN
      IF one.raised # ""
        THEN [storage |-> one.storage, raised |-> one.raised]
        ELSE Logs(one.storage, b, k - 1)

---------------------------------------------------------------------------
(* HTTP service (src/main.py).  url_db maps a shortcode to its entry.       *)
(* th[t] is the request worker thread t is serving: its position (pc), its *)
(* locals and, once pc = "done", its response.  n is the ordinal of the    *)
(* request among all requests, in the order in which they were taken up.   *)

HTTP_200_OK == 200

HTTP_201_CREATED == 201

TEMPORARY_REDIRECT == 307

HTTP_404_NOT_FOUND == 404

HTTP_410_GONE == 410

UNPROCESSABLE_ENTITY == 422

INTERNAL_SERVER_ERROR == 500

NoUrl == <<"", "", "">>

Entry(url, expiry) == [long_url |-> url, expiry_utc |-> expiry]

\* Inputs: the bodies of POST /shorturls and the path of GET /{shortcode}
CustomCode == <<"a", "b", "c", "d">>

GoodUrls == { <<"https", "example.com", "/page">>, <<"HTTPS", "Example.COM", "">> }

GoodValidities == { <<>>, <<1>> }

GoodShortcodes == { <<>>, CustomCode }

BadBodies ==
  { [url |-> <<"mailto", "", "x">>, validity |-> <<>>, shortcode |-> <<>>],
    [url |-> <<"https", "example.com", "/page">>, validity |-> <<0>>, shortcode |-> <<>>],
    [url |-> <<"https", "example.com", "/page">>, validity |-> <<>>,
     shortcode |-> <<"a", "b", "c">>],
    [url |-> <<"https", "example.com", "/page">>, validity |-> <<>>,
     shortcode |-> <<"a", "b", "$", "d">>] }

CreateBodies ==
  [url : GoodUrls, validity : GoodValidities, shortcode : GoodShortcodes] \cup BadBodies

PathCodes == {CustomCode} \cup RandomDraws

\* (C11) min_length of line 31 left out
BodyValidNoMinLength(body) ==
  /\ UrlValid(body.url)
  /\ body.validity # <<>> => body.validity[1] > 0
  /\ body.shortcode # <<>> =>
       /\ Len(body.shortcode) <= MAX_LENGTH
       /\ Range(body.shortcode) \subseteq PatternChars

\* main.py 22-35: URLShortenRequest accepts the body
BodyValid(body) ==
  /\ UrlValid(body.url)
  /\ body.validity # <<>> => body.validity[1] > 0
  /\ body.shortcode # <<>> =>
       /\ Len(body.shortcode) >= MIN_LENGTH
       /\ Len(body.shortcode) <= MAX_LENGTH
       /\ Range(body.shortcode) \subseteq PatternChars

\* main.py 24-28: request_data.validity
Validity(body) ==
  IF body.validity = <<>> THEN DEFAULT_VALIDITY_MINUTES ELSE body.validity[1]

\* main.py 85: the shortlink, and the shortcode a client reads from it
Shortlink(shortcode) == <<BASE_SHORT_URL, "/">> \o shortcode

CodeOf(shortlink) == SubSeq(shortlink, 3, Len(shortlink))

Idle ==
  [pc |-> "idle", kind |-> "", body |-> [url |-> NoUrl, validity |-> <<>>,
   shortcode |-> <<>>], shortcode |-> <<>>, expiry |-> 0, status |-> 0,
   shortlink |-> <<>>, location |-> NoUrl, exc |-> ""]

\* Worker t is free to take up the next request
Free(t) ==
  /\ th[t].pc \in {"idle", "done"}
  /\ nreq < MaxRequests

Taken(kind, body) == [Idle EXCEPT !.kind = kind, !.body = body]

\* An exception leaves the handler: the server answers 500
Failed(r, exc) ==
  [r EXCEPT !.pc = "done", !.status = INTERNAL_SERVER_ERROR, !.exc = exc]

\* (C1) the assignment of line 78 left out
StoreNothing(db, shortcode, entry) == db

\* (C13) line 78 as a new dict in place of the item assignment
StoreAlone(db, shortcode, entry) == (shortcode :> entry)

\* main.py 78-81
Store(db, shortcode, entry) == (shortcode :> entry) @@ db

\* (C2) the del of line 105 left out
DeleteNothing(db, shortcode) == db

\* main.py 105
Delete(db, shortcode) == [c \in (DOMAIN db) \ {shortcode} |-> db[c]]

\* (C3) the test of line 68 left out
UnavailableNever(db, shortcode) == FALSE

\* (C17) line 68 taking an expired entry for a free shortcode
UnavailableUntilExpiry(db, shortcode) ==
  shortcode \in DOMAIN db /\ now <= db[shortcode].expiry_utc

\* main.py 68: the custom shortcode is in use
Unavailable(db, shortcode) == shortcode \in DOMAIN db

\* (C6) the test of line 99 left out: a missing entry is taken for a stale one
LookupNoAbsent(db, t, shortcode) ==
  IF shortcode \in DOMAIN db /\ t <= db[shortcode].expiry_utc THEN "redirect"
  ELSE "expired"

\* (C7) line 103 with >= for >
LookupExpiredAtExpiry(db, t, shortcode) ==
  IF shortcode \notin DOMAIN db THEN "not_found"
  ELSE IF t >= db[shortcode].expiry_utc THEN "expired"
  ELSE "redirect"

\* main.py 97-103: what the lookup and the expiry check at time t find
Lookup(db, t, shortcode) ==
  IF shortcode \notin DOMAIN db THEN "not_found"
  ELSE IF t > db[shortcode].expiry_utc THEN "expired"
  ELSE "redirect"

\* (C12) the test of line 47 left out
UniqueAlways(db, shortcode) == TRUE

\* (C15) the test of line 47 inverted
UniqueInverted(db, shortcode) == shortcode \in DOMAIN db

\* main.py 47: the code drawn is not in use
Unique(db, shortcode) == shortcode \notin DOMAIN db

\* main.py 58-75: POST /shorturls up to the choice of the shortcode
create_short_url(t, body) ==
  /\ Free(t)
  /\ nreq' = nreq + 1
  /\ UNCHANGED <<url_db, now, evicted, log_vars>>
  /\ IF ~ BodyValid(body)
       THEN /\ th' = [th EXCEPT ![t] =
                 [Taken("create", body) EXCEPT !.pc = "done",
                                               !.status = UNPROCESSABLE_ENTITY]]
            /\ UNCHANGED auth_token_storage
       ELSE \E b \in Answers(auth_token_storage) :
         LET custom == body.shortcode # <<>>
             taken  == custom /\ Unavailable(url_db, body.shortcode)
             logged == Logs(auth_token_storage, b,
                            IF custom /\ ~ taken THEN 2 ELSE IF custom THEN 3 ELSE 2)
             r      == Taken("create", body)
         IN /\ auth_token_storage' = logged.storage
            /\ th' = [th EXCEPT ![t] =
                 IF logged.raised # "" THEN Failed(r, logged.raised)
                 ELSE IF custom /\ ~ taken
                   THEN [r EXCEPT !.pc = "create_store", !.shortcode = body.shortcode,
                                  !.expiry = now + Validity(body)]
                   ELSE [r EXCEPT !.pc = "generate"]]

\* main.py 41-49 and 75: generate_unique_shortcode draws until the code
\* drawn is not a key of url_db
generate_unique_shortcode(t) ==
  /\ th[t].pc = "generate"
  /\ UNCHANGED <<url_db, now, nreq, evicted, log_vars>>
  /\ \E shortcode \in RandomDraws, b \in Answers(auth_token_storage) :
       LET logged == Logs(auth_token_storage, b, 2)
           r      == th[t]
       IN /\ Unique(url_db, shortcode)
          /\ auth_token_storage' = logged.storage
          /\ th' = [th EXCEPT ![t] =
               IF logged.raised # "" THEN Failed(r, logged.raised)
               ELSE [r EXCEPT !.pc = "create_store", !.shortcode = shortcode,
                              !.expiry = now + Validity(r.body)]]

\* main.py 76-87: the entry is stored and the response made
create_store(t) ==
  /\ th[t].pc = "create_store"
  /\ UNCHANGED <<now, nreq, evicted, log_vars>>
  /\ \E b \in Answers(auth_token_storage) :
       LET first  == Logs(auth_token_storage, b, 1)
           second == Logs(first.storage, b, 1)
           r      == th[t]
       IN IF first.raised # ""
            THEN /\ auth_token_storage' = first.storage
                 /\ url_db' = url_db
                 /\ th' = [th EXCEPT ![t] = Failed(r, first.raised)]
            ELSE /\ auth_token_storage' = second.storage
                 /\ url_db' = Store(url_db, r.shortcode,
                                    Entry(HttpUrlStr(r.body.url), r.expiry))
                 /\ th' = [th EXCEPT ![t] =
                      IF second.raised # "" THEN Failed(r, second.raised)
                      ELSE [r EXCEPT !.pc = "done", !.status = HTTP_201_CREATED,
                                     !.shortlink = Shortlink(r.shortcode)]]

\* main.py 90-103 and 108-110: GET /{shortcode} up to the expiry check, and
\* the answer when the entry is absent or has not expired
redirect_to_long_url(t, shortcode) ==
  /\ Free(t)
  /\ nreq' = nreq + 1
  /\ UNCHANGED <<url_db, now, evicted, log_vars>>
  /\ \E b \in Answers(auth_token_storage) :
       LET found  == Lookup(url_db, now, shortcode)
           logged == Logs(auth_token_storage, b, IF found = "expired" THEN 1 ELSE 2)
           r      == [Taken("get", Idle.body) EXCEPT !.shortcode = shortcode]
       IN /\ auth_token_storage' = logged.storage
          /\ th' = [th EXCEPT ![t] =
               IF logged.raised # "" THEN Failed(r, logged.raised)
               ELSE IF found = "not_found"
                 THEN [r EXCEPT !.pc = "done", !.status = HTTP_404_NOT_FOUND]
               ELSE IF found = "expired"
                 THEN [r EXCEPT !.pc = "evict"]
                 ELSE [r EXCEPT !.pc = "done", !.status = TEMPORARY_REDIRECT,
                                !.location = url_db[shortcode].long_url]]

\* main.py 104-106: the expired entry is removed and the request answered
redirect_evict(t) ==
  /\ th[t].pc = "evict"
  /\ UNCHANGED <<now, nreq, log_vars>>
  /\ \E b \in Answers(auth_token_storage) :
       LET logged == Logs(auth_token_storage, b, 1)
           r      == th[t]
       IN /\ auth_token_storage' = logged.storage
          /\ IF logged.raised # ""
               THEN /\ UNCHANGED <<url_db, evicted>>
                    /\ th' = [th EXCEPT ![t] = Failed(r, logged.raised)]
               ELSE IF r.shortcode \notin DOMAIN url_db
                 THEN /\ UNCHANGED <<url_db, evicted>>
                      /\ th' = [th EXCEPT ![t] = Failed(r, "KeyError")]
                 ELSE /\ url_db' = Delete(url_db, r.shortcode)
                      /\ evicted' = evicted \cup {r.shortcode}
                      /\ th' = [th EXCEPT ![t] =
                           [r EXCEPT !.pc = "done", !.status = HTTP_410_GONE]]

\* main.py 112-116: GET /
health_check(t) ==
  /\ Free(t)
  /\ nreq' = nreq + 1
  /\ UNCHANGED <<url_db, now, evicted, log_vars>>
  /\ \E b \in Answers(auth_token_storage) :
       LET logged == Logs(auth_token_storage, b, 1)
           r      == Taken("health", Idle.body)
       IN /\ auth_token_storage' = logged.storage
          /\ th' = [th EXCEPT ![t] =
               IF logged.raised # "" THEN Failed(r, logged.raised)
               ELSE [r EXCEPT !.pc = "done", !.status = HTTP_200_OK]]

\* The clock (datetime.now) advances by a minute
Tick ==
  /\ now < MaxTime
  /\ now' = now + 1
  /\ UNCHANGED <<url_db, th, nreq, evicted, auth_token_storage, log_vars>>

---------------------------------------------------------------------------
(* Threads inside Log (src/logger.py), step by step.  lg[t] is the Log     *)
(* call thread t is making: its position and the token get_auth_token gave *)
(* it.  token_lock is the thread holding the lock ("" when it is free),    *)
(* auth_posts the number of requests sent to the auth endpoint so far,     *)
(* first_auth the answer to the first of them ("" before it, "failed", or  *)
(* the token), calls the number of Log calls made so far.                  *)

LogIdle == [pc |-> "idle", token |-> "", exc |-> "", auth_sent |-> 0, log_sent |-> 0]

\* (C18) an exit of get_auth_token that keeps the lock
ReleasedNot(lock) == lock

\* logger.py 29: the with statement is left, on whatever path
Released(lock) == ""

\* (C9) get_auth_token without the lock
LockFreeAlways(lock) == TRUE

\* logger.py 29: the lock can be taken
LockFree(lock) == lock = ""

\* logger.py 61-66: a thread calls Log and reaches the with statement
LogCall(t) ==
  /\ lg[t].pc \in {"idle", "raised"}
  /\ calls < MaxLogCalls
  /\ calls' = calls + 1
  /\ lg' = [lg EXCEPT ![t] = [LogIdle EXCEPT !.pc = "wait_lock"]]
  /\ UNCHANGED <<svc_vars, auth_token_storage, token_lock, auth_posts, first_auth>>

\* logger.py 29: with token_lock
Acquire(t) ==
  /\ lg[t].pc = "wait_lock"
  /\ LockFree(token_lock)
  /\ token_lock' = t
  /\ lg' = [lg EXCEPT ![t].pc = "locked"]
  /\ UNCHANGED <<svc_vars, auth_token_storage, auth_posts, first_auth, calls>>

\* logger.py 30-43 and 66-84: the cached token is returned and the log
\* request sent with it, or the auth request is sent
CheckCache(t) ==
  /\ lg[t].pc = "locked"
  /\ IF Cached(auth_token_storage)
       THEN /\ lg' = [lg EXCEPT ![t].pc = "log_sent", ![t].token = auth_token_storage[1],
                                 ![t].log_sent = @ + 1]
            /\ token_lock' = Released(token_lock)
            /\ UNCHANGED auth_posts
       ELSE /\ lg' = [lg EXCEPT ![t].pc = "auth_sent", ![t].auth_sent = @ + 1]
            /\ auth_posts' = auth_posts + 1
            /\ UNCHANGED token_lock
  /\ UNCHANGED <<svc_vars, auth_token_storage, first_auth, calls>>

\* logger.py 43-59 and 66-84: the auth endpoint answers; the lock is
\* released on the way out of the with statement
AuthAnswer(t, a) ==
  /\ lg[t].pc = "auth_sent"
  /\ LET r == AuthResult(auth_token_storage, a) IN
       /\ auth_token_storage' = r.storage
       /\ first_auth' = IF first_auth # "" THEN first_auth
                        ELSE IF r.token = "" THEN "failed" ELSE r.token
       /\ lg' = [lg EXCEPT ![t] =
            IF r.raised # "" THEN [@ EXCEPT !.pc = "raised", !.exc = r.raised]
            ELSE IF ~ HasToken(r.token) THEN LogIdle
            ELSE [@ EXCEPT !.pc = "log_sent", !.token = r.token, !.log_sent = @ + 1]]
  /\ token_lock' = Released(token_lock)
  /\ UNCHANGED <<svc_vars, auth_posts, calls>>

\* logger.py 84-88: the log endpoint answers and Log returns
LogAnswer(t, l) ==
  /\ lg[t].pc = "log_sent"
  /\ lg' = [lg EXCEPT ![t] =
       IF SubmitResult(l).raised # ""
         THEN [@ EXCEPT !.pc = "raised", !.exc = SubmitResult(l).raised]
         ELSE LogIdle]
  /\ UNCHANGED <<svc_vars, auth_token_storage, token_lock, auth_posts, first_auth, calls>>

---------------------------------------------------------------------------
Init ==
  /\ url_db = <<>>
  /\ now = 0
  /\ th = [t \in Threads |-> Idle]
  /\ nreq = 0
  /\ evicted = {}
  /\ auth_token_storage = <<>>
  /\ token_lock = ""
  /\ lg = [t \in LogThreads |-> LogIdle]
  /\ auth_posts = 0
  /\ first_auth = ""
  /\ calls = 0

Next ==
  \/ \E t \in Worker, body \in CreateBodies : create_short_url(t, body)
  \/ \E t \in Worker : generate_unique_shortcode(t)
  \/ \E t \in Worker : create_store(t)
  \/ \E t \in Worker, shortcode \in PathCodes : redirect_to_long_url(t, shortcode)
  \/ \E t \in Worker : redirect_evict(t)
  \/ \E t \in Worker : health_check(t)
  \/ Tick

Spec == Init /\ [][Next]_vars

\* The server with one worker, where a handler that can go on does go on: a
\* draw of line 46 that collides changes nothing and is repeated, and the
\* draws are fair, so a free code, as long as there is one, is drawn at some
\* time; the store of line 78 and the answer follow without waiting.
SpecFair ==
  /\ Init /\ [][Next]_vars
  /\ \A t \in Worker : WF_vars(generate_unique_shortcode(t))
  /\ \A t \in Worker : WF_vars(create_store(t))

NextConc ==
  \/ \E t \in Threads, body \in CreateBodies : create_short_url(t, body)
  \/ \E t \in Threads : generate_unique_shortcode(t)
  \/ \E t \in Threads : create_store(t)
  \/ \E t \in Threads, shortcode \in PathCodes : redirect_to_long_url(t, shortcode)
  \/ \E t \in Threads : redirect_evict(t)
  \/ \E t \in Threads : health_check(t)
  \/ Tick

SpecConc == Init /\ [][NextConc]_vars


NextLog ==
  \/ \E t \in LogThreads : LogCall(t)
  \/ \E t \in LogThreads : Acquire(t)
  \/ \E t \in LogThreads : CheckCache(t)
  \/ \E t \in LogThreads, a \in AuthAnswers : AuthAnswer(t, a)
  \/ \E t \in LogThreads, l \in LogAnswers : LogAnswer(t, l)

SpecLog == Init /\ [][NextLog]_vars

\* The logger where a thread that can go on does go on: the lock, once free
\* and left free, is given to a thread waiting for it, and the requests to
\* the auth and log endpoints (timeout=10, timeout=5) are answered or time out
SpecLogFair ==
  /\ Init /\ [][NextLog]_vars
  /\ \A t \in LogThreads :
       /\ WF_vars(Acquire(t))
       /\ WF_vars(CheckCache(t))
       /\ WF_vars(\E a \in AuthAnswers : AuthAnswer(t, a))
       /\ WF_vars(\E l \in LogAnswers : LogAnswer(t, l))

---------------------------------------------------------------------------
(* Properties *)

\* The step is worker t taking up a request of this kind
Started(t, kind) ==
  /\ nreq' = nreq + 1
  /\ th'[t].kind = kind
  /\ \A u \in Threads \ {t} : th'[u] = th[u]

\* Worker t has answered a request of this kind
Answered(t, kind) == th[t].pc = "done" /\ th[t].kind = kind

\* The step is a GET of the shortcode of the shortlink worker t has just
\* returned for a create request, before the expiry of the entry
RedirectAfterCreate(t) ==
  /\ Answered(t, "create")
  /\ th[t].status = HTTP_201_CREATED
  /\ Started(t, "get")
  /\ th'[t].shortcode = CodeOf(th[t].shortlink)
  /\ now <= th[t].expiry

C2_Always404AfterEviction ==
  \A c \in evicted : Lookup(url_db, now, c) = "not_found"

\* C2 amended: the GET that finds a stored shortcode past its expiry answers
\* 410 and removes the entry; later GETs of the shortcode answer 404 until a
\* create request stores that shortcode again, which is the only way it comes
\* back.
C2_ExpiredThenGone ==
  [][\A t \in Threads :
       /\ ( /\ Started(t, "get")
            /\ th'[t].shortcode \in DOMAIN url_db
            /\ now > url_db[th'[t].shortcode].expiry_utc )
          => th'[t].pc = "evict" /\ th'[t].status = 0
       /\ (th[t].pc = "evict" /\ th'[t].pc = "done")
          => /\ th'[t].status = HTTP_410_GONE
             /\ th[t].shortcode \notin DOMAIN url_db'
       /\ ( /\ Started(t, "get")
            /\ th'[t].shortcode \in evicted
            /\ th'[t].shortcode \notin DOMAIN url_db )
          => /\ th'[t].pc = "done"
             /\ th'[t].status = HTTP_404_NOT_FOUND
             /\ url_db' = url_db
       /\ \A c \in evicted :
            (c \notin DOMAIN url_db /\ c \in DOMAIN url_db')
              => \E u \in Threads : /\ th[u].pc = "create_store"
                                    /\ th[u].shortcode = c
                                    /\ th'[u].status = HTTP_201_CREATED]_vars

\* A create request, the GET answered 410, and the next GET answered 404
C2_Witness ==
  \E t \in Threads :
    /\ Answered(t, "get")
    /\ th[t].status = HTTP_404_NOT_FOUND
    /\ th[t].shortcode \in evicted

\* C3: a create request asking for a shortcode that is a key of url_db goes
\* on to generate a code, and is answered 201 with a shortlink whose code is a
\* generated one, different from the shortcode asked for; no exception is
\* raised.
C3_TakenCustomCode ==
  [][\A t \in Threads :
       /\ ( /\ Started(t, "create")
            /\ BodyValid(th'[t].body)
            /\ th'[t].body.shortcode \in DOMAIN url_db )
          => th'[t].pc = "generate"
       /\ ( /\ th[t].pc = "create_store"
            /\ th'[t].pc = "done"
            /\ th[t].body.shortcode \in DOMAIN url_db )
          => /\ th'[t].status = HTTP_201_CREATED
             /\ th'[t].exc = ""
             /\ CodeOf(th'[t].shortlink) # th[t].body.shortcode
             /\ CodeOf(th'[t].shortlink) \in RandomDraws
             /\ CodeOf(th'[t].shortlink) \in DOMAIN url_db']_vars

\* A create request answered 201 with a generated code, not the custom
\* shortcode it asked for
C3_Witness ==
  \E t \in Threads :
    /\ Answered(t, "create")
    /\ th[t].status = HTTP_201_CREATED
    /\ th[t].body.shortcode = CustomCode
    /\ CodeOf(th[t].shortlink) = RandomCode(1)

\* C4 as stated: while a shortcode stays a key of url_db, no step changes
\* the URL or the expiry stored under it, whatever the interleaving of the
\* requests.
C4_EntryImmutable ==
  [][\A c \in (DOMAIN url_db) \cap (DOMAIN url_db') : url_db'[c] = url_db[c]]_vars

\* C5 as stated: every GET /{shortcode} ends with a redirect (the 302-class
\* answer of the spec; RedirectResponse sends 307), 404 or 410, and with no
\* unhandled exception, whatever the interleaving of the requests.
C5_RedirectOutcomes ==
  \A t \in Threads :
    Answered(t, "get") =>
      /\ th[t].exc = ""
      /\ th[t].status \in {TEMPORARY_REDIRECT, HTTP_404_NOT_FOUND, HTTP_410_GONE}

\* C6: a GET of a shortcode that is not a key of url_db is answered 404 at
\* once and leaves url_db unchanged.
C6_UnknownIs404 ==
  [][\A t \in Threads :
       (Started(t, "get") /\ th'[t].shortcode \notin DOMAIN url_db)
         => /\ th'[t].pc = "done"
            /\ th'[t].status = HTTP_404_NOT_FOUND
            /\ url_db' = url_db]_vars

\* A GET of a shortcode that is no key, answered 404
C6_Witness ==
  \E t \in Threads :
    /\ Answered(t, "get")
    /\ th[t].status = HTTP_404_NOT_FOUND
    /\ th[t].shortcode \notin DOMAIN url_db
    /\ url_db # <<>>

\* C7: a GET of a stored shortcode at a time now <= its expiry E redirects to
\* the stored URL and leaves url_db unchanged; at now > E it goes on to evict
\* the entry, and only a GET that found now > E answers 410.
C7_ResolvesUntilExpiry ==
  [][\A t \in Threads :
       /\ (Started(t, "get") /\ th'[t].shortcode \in DOMAIN url_db)
          => LET e == url_db[th'[t].shortcode] IN
               IF now <= e.expiry_utc
                 THEN /\ th'[t].pc = "done"
                      /\ th'[t].status = TEMPORARY_REDIRECT
                      /\ th'[t].location = e.long_url
                      /\ url_db' = url_db
                 ELSE /\ th'[t].pc = "evict"
                      /\ url_db' = url_db
       /\ (th'[t].status = HTTP_410_GONE /\ th[t].status # HTTP_410_GONE)
          => /\ th[t].pc = "evict"
             /\ th[t].shortcode \in DOMAIN url_db
             /\ now > url_db[th[t].shortcode].expiry_utc]_vars

\* A GET at the very minute of the expiry, answered with a redirect
C7_Witness ==
  \E t \in Threads :
    /\ Answered(t, "get")
    /\ th[t].status = TEMPORARY_REDIRECT
    /\ th[t].shortcode \in DOMAIN url_db
    /\ url_db[th[t].shortcode].expiry_utc = now
    /\ th[t].location = url_db[th[t].shortcode].long_url

\* C8: once auth_token_storage holds a token, no step changes it, no step
\* sends a request to the auth endpoint, and every get_auth_token call that
\* returns, returns that token, whatever the log endpoint answers.
C8_TokenNeverReplaced ==
  [][auth_token_storage # <<>> =>
       /\ auth_token_storage' = auth_token_storage
       /\ auth_posts' = auth_posts
       /\ \A t \in LogThreads :
            (lg[t].pc = "locked" /\ lg'[t].pc # "locked")
              => /\ lg'[t].pc = "log_sent"
                 /\ lg'[t].token = auth_token_storage[1]]_vars

\* All the Log calls have returned, one auth request was sent and its token
\* is still the one cached
C8_Witness ==
  /\ auth_token_storage # <<>>
  /\ auth_token_storage[1] = first_auth
  /\ auth_posts = 1
  /\ calls = MaxLogCalls
  /\ \A t \in LogThreads : lg[t].pc = "idle"

\* C9: at most one request to the auth endpoint is in flight at any time;
\* when the first of them is answered with a token, it is the only one ever
\* sent, the token is the one cached, and every caller holds that token.
C9_SingleFetch ==
  /\ Cardinality({ t \in LogThreads : lg[t].pc = "auth_sent" }) <= 1
  /\ first_auth \in Tokens =>
       /\ auth_posts = 1
       /\ auth_token_storage = <<first_auth>>
       /\ \A t \in LogThreads : lg[t].token \in {"", first_auth}

\* Two threads that called Log at the same time hold the same token, and
\* one auth request was sent
C9_Witness ==
  /\ auth_posts = 1
  /\ calls = 2
  /\ \A t \in LogThreads : lg[t].pc = "log_sent" /\ lg[t].token = first_auth

CustomForm(c) ==
  /\ Len(c) \in 4..12
  /\ \A i \in 1..Len(c) :
       c[i] \in Range(ascii_letters) \cup Range(digits) \cup {"_", "-"}

\* A shortcode as the generator makes it: SHORTCODE_LENGTH characters, each a
\* letter or a digit
GeneratedForm(c) ==
  /\ Len(c) = SHORTCODE_LENGTH
  /\ \A i \in 1..Len(c) : c[i] \in Range(ascii_letters) \cup Range(digits)

\* C11: every key of url_db is a supplied shortcode of 4 to 12 characters over
\* letters, digits, underscore and hyphen, or a generated code of exactly
\* SHORTCODE_LENGTH letters and digits; every code that comes out of
\* generate_unique_shortcode (the shortcode of a create request that is not
\* the one the request supplied) is of the second form.
C11_KeyForms ==
  /\ \A c \in DOMAIN url_db : CustomForm(c) \/ GeneratedForm(c)
  /\ \A t \in Worker :
       (/\ th[t].kind = "create"
        /\ th[t].pc \in {"create_store", "done"}
        /\ th[t].shortcode # <<>>
        /\ th[t].shortcode # th[t].body.shortcode) => GeneratedForm(th[t].shortcode)

\* url_db holds a key of each form: the supplied one and a generated one
C11_Witness ==
  /\ CustomCode \in DOMAIN url_db
  /\ \E c \in DOMAIN url_db : c # CustomCode /\ GeneratedForm(c)

\* C12: the shortcode handed to create_short_url, whether the supplied one was
\* accepted at line 68 or a code was generated at lines 70/73, is not a key of
\* url_db at that instant: a worker that has its shortcode and has not stored
\* yet holds a shortcode that is no key.
C12_HandedCodeIsFree ==
  \A t \in Worker :
    th[t].pc = "create_store" => th[t].shortcode \notin DOMAIN url_db

\* The supplied shortcode was a key, and the worker holds the generated code
\* it got instead, not stored yet
C12_Witness ==
  \E t \in Worker :
    /\ th[t].pc = "create_store"
    /\ th[t].body.shortcode = CustomCode
    /\ CustomCode \in DOMAIN url_db
    /\ th[t].shortcode \in RandomDraws

\* C13: a key leaves url_db only in the step in which a GET of that same
\* shortcode, having found the entry expired, deletes it and answers 410; no
\* other step (create, health check, other GETs, time passing) removes a key,
\* and the health check leaves url_db unchanged.
C13_OnlyLazyEviction ==
  [][ /\ \A c \in (DOMAIN url_db) \ (DOMAIN url_db') :
           \E t \in Worker :
             /\ th[t].kind = "get"
             /\ th[t].pc = "evict"
             /\ th[t].shortcode = c
             /\ now > url_db[c].expiry_utc
             /\ th'[t].status = HTTP_410_GONE
      /\ \A t \in Worker : Started(t, "health") => url_db' = url_db
    ]_vars

\* A GET has evicted an expired shortcode and answered 410 while another
\* entry stays in url_db
C13_Witness ==
  \E t \in Worker :
    /\ Answered(t, "get")
    /\ th[t].status = HTTP_410_GONE
    /\ th[t].shortcode \in evicted
    /\ th[t].shortcode \notin DOMAIN url_db
    /\ url_db # << >>

\* C14: when the auth request of a Log call is answered without a token
\* (nothing is cached by the answer), the call returns without a request to
\* the log endpoint and auth_token_storage stays empty; a Log call that finds
\* no token cached sends an auth request, and when that is answered with a
\* token the token is cached and the call goes on to send its log request
\* with it.
C14_FailedAuthIsRetried ==
  [][\A t \in LogThreads :
       /\ (lg[t].pc = "auth_sent" /\ lg'[t].pc # "auth_sent") =>
            IF auth_token_storage' = <<>>
              THEN /\ lg'[t].pc = "idle"
                   /\ lg'[t].log_sent = 0
              ELSE /\ lg'[t].pc = "log_sent"
                   /\ lg'[t].token \in Tokens
                   /\ auth_token_storage' = <<lg'[t].token>>
       /\ (lg[t].pc = "locked" /\ lg'[t].pc # "locked" /\ auth_token_storage = <<>>) =>
            /\ lg'[t].pc = "auth_sent"
            /\ auth_posts' = auth_posts + 1
    ]_vars

\* The first auth request failed, a later Log call authenticated again, its
\* token is cached and its log request is on its way
C14_Witness ==
  /\ first_auth = "failed"
  /\ auth_posts >= 2
  /\ \E t \in LogThreads :
       /\ lg[t].pc = "log_sent"
       /\ auth_token_storage = <<lg[t].token>>

C15_Stuck ==
  \E t \in Worker : th[t].pc = "generate" /\ RandomDraws \subseteq DOMAIN url_db

\* C16: within one Log call at most one request goes to the auth endpoint and
\* at most one to the log endpoint, and a request to the log endpoint is sent
\* only by a call that holds a token; over all calls no more auth requests
\* were sent than Log was called.
C16_NoRetries ==
  /\ auth_posts <= calls
  /\ \A t \in LogThreads :
       /\ lg[t].auth_sent <= 1
       /\ lg[t].log_sent <= 1
       /\ lg[t].pc = "log_sent" => lg[t].log_sent = 1
       /\ lg[t].log_sent = 1 => lg[t].token \in Tokens

\* A Log call that sent one auth request and then one log request
C16_Witness ==
  \E t \in LogThreads :
    /\ lg[t].pc = "log_sent"
    /\ lg[t].auth_sent = 1
    /\ lg[t].log_sent = 1
    /\ lg[t].token \in Tokens

C17_ExpiredStillTaken ==
  \E t \in Worker :
    /\ th[t].pc = "generate"
    /\ th[t].body.shortcode \in DOMAIN url_db
    /\ now > url_db[th[t].body.shortcode].expiry_utc

\* C18: token_lock is held only by a thread that is inside the with block of
\* get_auth_token (testing the cache or waiting for the auth endpoint), and
\* every Log call that was made returns, the auth and log endpoints
\* answering or timing out.
C18_LockReleased ==
  /\ [](token_lock # "" =>
          /\ token_lock \in LogThreads
          /\ lg[token_lock].pc \in {"locked", "auth_sent"})
  /\ \A t \in LogThreads : (lg[t].pc # "idle") ~> (lg[t].pc = "idle")

\* All the Log calls have returned and the lock is free, after a call that
\* left get_auth_token without a token, a call that fetched one and calls
\* that found it cached
C18_Witness ==
  /\ token_lock = ""
  /\ first_auth = "failed"
  /\ auth_token_storage # <<>>
  /\ auth_posts = 2
  /\ calls = MaxLogCalls
  /\ \A t \in LogThreads : lg[t].pc = "idle"

\* C19: auth_token_storage is None or a dict with one non-empty token, and it
\* is assigned only when an auth request is answered, with the non-empty
\* token of that answer, which the call then holds; an answer without a token
\* or with an empty one leaves it as it was.
C19_StorageWellFormed ==
  /\ [](\/ auth_token_storage = <<>>
        \/ /\ Len(auth_token_storage) = 1
           /\ auth_token_storage[1] \in {"tokA", "tokB"})
  /\ [][auth_token_storage' # auth_token_storage =>
          \E t \in LogThreads :
            /\ lg[t].pc = "auth_sent"
            /\ lg'[t].pc = "log_sent"
            /\ lg'[t].token # ""
            /\ auth_token_storage' = <<lg'[t].token>>]_vars

\* Two auth requests were answered without a token and cached nothing; the
\* token of the third is cached
C19_Witness ==
  /\ auth_posts = 3
  /\ first_auth = "failed"
  /\ auth_token_storage = <<"tokB">>

====
